---------------------------- MODULE Spec2Model ----------------------------
(***************************************************************************)
(* Model of app/lib/actions.ts: the invoice server actions createInvoice,  *)
(* updateInvoice, deleteInvoice and the sign-in action authenticate.       *)
(*                                                                         *)
(* JavaScript values are modelled as records:                              *)
(*   undefined            [undefined |-> TRUE]                             *)
(*   a returned string    [string |-> s]                                   *)
(*   an object literal    the record with the same keys                    *)
(* A FormData entry (FormData.get) is [t, s]: t is "undefined" (there is   *)
(* no FormData at all, formData?.get), "null" (no such field), "file" or   *)
(* "string" with the text in s.  The text of customerId and status is a    *)
(* TLA+ string; the text of amount is a sequence of characters, because    *)
(* Number() reads it character by character.                               *)
(* A JavaScript number is [nan, m, e]: NaN, or the decimal m * 10^-e with  *)
(* no trailing zero in the fraction.  Arithmetic on these is exact; the    *)
(* rounding of IEEE doubles is not modelled.                               *)
(***************************************************************************)
EXTENDS Integers, Sequences, FiniteSets, TLC

VARIABLES invoices, nextId, today, last, turn

vars == <<invoices, nextId, today, last, turn>>

(***************************************************************************)
(* Bounds of the model.                                                    *)
(***************************************************************************)
\* ids the store hands out: 1..MaxId
MaxId == 2

-----------------------------------------------------------------------------
(***************************************************************************)
(* JavaScript values                                                       *)
(***************************************************************************)
Undefined == [undefined |-> TRUE]

Null == [null |-> TRUE]

Str(s) == [string |-> s]

NaN == [nan |-> TRUE, m |-> 0, e |-> 0]

RECURSIVE Norm(_, _)
\* the decimal m * 10^-e without trailing zeros in its fraction
Norm(m, e) ==
  IF e > 0 /\ m % 10 = 0 THEN Norm(m \div 10, e - 1)
  ELSE [nan |-> FALSE, m |-> m, e |-> e]

\* a * b of two numbers
Times(a, b) ==
  IF a.nan \/ b.nan THEN NaN ELSE Norm(a.m * b.m, a.e + b.e)

\* a > 0 (false for NaN)
GtZero(a) == ~a.nan /\ a.m > 0

Num(k) == Norm(k, 0)

(***************************************************************************)
(* Number(value), the coercion z.coerce.number() applies (line 25).        *)
(* StringToNumber: white space is trimmed, the empty string is 0, an       *)
(* optionally signed decimal literal is its value, anything else is NaN.   *)
(* Exponents, hexadecimal literals and "Infinity" are not modelled: no     *)
(* input of the model uses them.                                           *)
(***************************************************************************)
DigitChars == <<"0", "1", "2", "3", "4", "5", "6", "7", "8", "9">>

IsDigit(c) == \E i \in 1..Len(DigitChars) : DigitChars[i] = c

DigitVal(c) == (CHOOSE i \in 1..Len(DigitChars) : DigitChars[i] = c) - 1

IsSpace(c) == c \in {" ", "\t", "\n"}

RECURSIVE TrimLeft(_)
TrimLeft(cs) ==
  IF cs # <<>> /\ IsSpace(Head(cs)) THEN TrimLeft(Tail(cs)) ELSE cs

RECURSIVE TrimRight(_)
TrimRight(cs) ==
  IF cs # <<>> /\ IsSpace(cs[Len(cs)])
  THEN TrimRight(SubSeq(cs, 1, Len(cs) - 1))
  ELSE cs

RECURSIVE DigitsValue(_)
\* the value of a sequence of digits read as a decimal integer
DigitsValue(ds) ==
  IF ds = <<>> THEN 0
  ELSE 10 * DigitsValue(SubSeq(ds, 1, Len(ds) - 1)) + DigitVal(ds[Len(ds)])

\* an unsigned decimal literal: digits, at most one point, at least one digit
UnsignedToNumber(cs) ==
  LET points == {i \in 1..Len(cs) : cs[i] = "."}
      digits == SelectSeq(cs, IsDigit)
  IN  IF \/ Cardinality(points) > 1
         \/ digits = <<>>
         \/ \E i \in 1..Len(cs) : ~IsDigit(cs[i]) /\ cs[i] # "."
      THEN NaN
      ELSE LET frac == IF points = {} THEN 0
                       ELSE Len(cs) - (CHOOSE i \in points : TRUE)
           IN  Norm(DigitsValue(digits), frac)

StringToNumber(cs) ==
  LET t == TrimRight(TrimLeft(cs))
  IN  IF t = <<>> THEN Num(0)
      ELSE IF Head(t) = "-"
           THEN LET n == UnsignedToNumber(Tail(t))
                IN  IF n.nan THEN NaN ELSE Norm(0 - n.m, n.e)
      ELSE IF Head(t) = "+" THEN UnsignedToNumber(Tail(t))
      ELSE UnsignedToNumber(t)

\* Number(v) of a FormData entry: Number(undefined) is NaN, Number(null) is
\* 0, a File is an object whose string form is no numeric literal
ToNumber(v) ==
  CASE v.t = "undefined" -> NaN
    [] v.t = "null"      -> Num(0)
    [] v.t = "file"      -> NaN
    [] v.t = "string"    -> StringToNumber(v.s)

-----------------------------------------------------------------------------
(***************************************************************************)
(* FormData                                                                *)
(***************************************************************************)
NoFormData == [present |-> FALSE]

FormData(c, a, s) ==
  [present |-> TRUE, customerId |-> c, amount |-> a, status |-> s]

NullEntry == [t |-> "null", s |-> ""]
FileEntry == [t |-> "file", s |-> ""]
StringEntry(s) == [t |-> "string", s |-> s]
UndefinedEntry == [t |-> "undefined", s |-> ""]

NullAmount == [t |-> "null", s |-> <<>>]
FileAmount == [t |-> "file", s |-> <<>>]
UndefinedAmount == [t |-> "undefined", s |-> <<>>]

\* formData?.get('customerId'), formData?.get('amount'), formData?.get('status')
GetCustomerId(formData) ==
  IF formData.present THEN formData.customerId ELSE UndefinedEntry

GetAmount(formData) ==
  IF formData.present THEN formData.amount ELSE UndefinedAmount

GetStatus(formData) ==
  IF formData.present THEN formData.status ELSE UndefinedEntry

-----------------------------------------------------------------------------
(***************************************************************************)
(* The payloads of the model                                               *)
(***************************************************************************)
AmountString(cs) == [t |-> "string", s |-> cs]

A_10 == AmountString(<<"1", "0">>)
A_45_5 == AmountString(<<"4", "5", ".", "5">>)
A_0 == AmountString(<<"0">>)
A_neg5 == AmountString(<<"-", "5">>)
A_abc == AmountString(<<"a", "b", "c">>)
A_empty == AmountString(<<>>)
A_blank == AmountString(<<" ">>)
A_padded == AmountString(<<" ", "7", ".", "2", "0", " ">>)

CustomerIdEntries ==
  {NullEntry, FileEntry, StringEntry(""), StringEntry("c1"), StringEntry("c2")}

AmountEntries ==
  {NullAmount, FileAmount, A_empty, A_blank, A_abc, A_0, A_neg5, A_10,
   A_45_5, A_padded}

StatusEntries ==
  {NullEntry, FileEntry, StringEntry(""), StringEntry("Pending"),
   StringEntry("overdue"), StringEntry("bad"), StringEntry("pending"),
   StringEntry("paid")}

\* every payload: none at all, or any combination of the entries
AllForms ==
  {NoFormData} \cup
  {FormData(c, a, s) : c \in CustomerIdEntries, a \in AmountEntries,
                       s \in StatusEntries}

\* the payloads the handlers are called with: none, two that fail the
\* schema and two that pass it
Forms ==
  {NoFormData,
   FormData(StringEntry("c1"), A_neg5, StringEntry("pending")),
   FormData(StringEntry("c2"), A_abc, StringEntry("overdue")),
   FormData(StringEntry("c1"), A_10, StringEntry("pending")),
   FormData(StringEntry("c2"), A_45_5, StringEntry("paid"))}

-----------------------------------------------------------------------------
(***************************************************************************)
(* FormSchema (lines 20-33), with zod's rules for the message of an issue: *)
(* invalid_type_error is the message of an invalid_type issue whose data   *)
(* is not undefined; undefined data gets "Required"; every other issue     *)
(* code gets zod's default message unless the check carries its own.       *)
(***************************************************************************)
MsgCustomer == "Please select a customer."
MsgAmount == "Please enter an amount greater than $0."
MsgStatus == "Please select an invoice status."
MsgRequired == "Required"
MsgNaN == "Expected number, received nan"
MsgEnum(received) ==
  "Invalid enum value. Expected 'pending' | 'paid', received '" \o received \o "'"

StatusValues == {"pending", "paid"}

\* the issues (messages) of each field; <<>> when the field passes

\* customerId: z.string({invalid_type_error})
FormSchema_customerId(v) ==
  CASE v.t = "string"    -> <<>>
    [] v.t = "undefined" -> <<MsgRequired>>
    [] OTHER             -> <<MsgCustomer>>

\* the slip: .gt(0, ...) left out of the schema
AmountAboveBound_Unchecked(n) == TRUE

\* the bound of .gt(0, ...)
AmountAboveBound(n) == GtZero(n)

\* amount: z.coerce.number().gt(0, {message})
FormSchema_amount(v) ==
  LET n == ToNumber(v)
  IN  IF n.nan THEN <<MsgNaN>>
      ELSE IF ~AmountAboveBound(n) THEN <<MsgAmount>>
      ELSE <<>>

\* status: z.enum(['pending', 'paid'], {invalid_type_error})
FormSchema_status(v) ==
  CASE v.t = "undefined" -> <<MsgRequired>>
    [] v.t # "string"    -> <<MsgStatus>>
    [] v.s \notin StatusValues -> <<MsgEnum(v.s)>>
    [] OTHER             -> <<>>

FieldNames == {"customerId", "amount", "status"}

\* the result of CreateInvoice / UpdateInvoice (both are
\* FormSchema.omit({id, date})) on the three entries: every field is
\* checked, fieldErrors (error.flatten().fieldErrors) has a key for each
\* field with an issue, data holds the parsed values
SchemaResult(formData) ==
  LET issues == [f \in FieldNames |->
                   CASE f = "customerId" -> FormSchema_customerId(GetCustomerId(formData))
                     [] f = "amount"     -> FormSchema_amount(GetAmount(formData))
                     [] f = "status"     -> FormSchema_status(GetStatus(formData))]
      failing == {f \in FieldNames : issues[f] # <<>>}
  IN  [success |-> failing = {},
       fieldErrors |-> [f \in failing |-> issues[f]],
       data |-> IF failing = {}
                THEN [customerId |-> GetCustomerId(formData).s,
                      amount |-> ToNumber(GetAmount(formData)),
                      status |-> GetStatus(formData).s]
                ELSE Null]

\* the schema's result for every payload, computed once
ParseTable == [formData \in AllForms |-> SchemaResult(formData)]

\* CreateInvoice.safeParse({customerId: formData?.get('customerId'), ...})
SafeParse(formData) == ParseTable[formData]

MsgMissingFields == "Missing Fields. Failed to Create Invoice."

\* the slip: the errors are computed and not returned
validateInvoiceForms_NoEarlyReturn(formData) == Null

validateInvoiceForms(formData) ==
  LET validatedFields == SafeParse(formData)
  IN  IF ~validatedFields.success
      THEN [errors |-> validatedFields.fieldErrors, message |-> MsgMissingFields]
      ELSE Null

-----------------------------------------------------------------------------
(***************************************************************************)
(* The invoices table behind sql`...`.  A row is                           *)
(* [id, customer_id, amount, status, date]; the store gives an inserted    *)
(* row the next id of its sequence.                                        *)
(***************************************************************************)
NoStmt == [kind |-> "none"]

\* INSERT INTO invoices (customer_id, amount, status, date) VALUES (...)
InsertStmt(customerId, amountInCents, status, date) ==
  [kind |-> "INSERT", customer_id |-> customerId, amount |-> amountInCents,
   status |-> status, date |-> date]

\* UPDATE invoices SET customer_id = .., amount = .., status = .. WHERE id = ..
UpdateStmt(customerId, amountInCents, status, id) ==
  [kind |-> "UPDATE", customer_id |-> customerId, amount |-> amountInCents,
   status |-> status, id |-> id]

\* DELETE FROM invoices WHERE id = ..
DeleteStmt(id) == [kind |-> "DELETE", id |-> id]

InsertRow(table, id, stmt) ==
  table \cup {[id |-> id, customer_id |-> stmt.customer_id,
               amount |-> stmt.amount, status |-> stmt.status,
               date |-> stmt.date]}

\* the slip: UPDATE without its WHERE clause
UpdateRows_NoWhere(table, stmt) ==
  {[r EXCEPT !.customer_id = stmt.customer_id,
             !.amount = stmt.amount,
             !.status = stmt.status] : r \in table}

RECURSIVE Shift(_, _)
\* m * 10^k
Shift(m, k) == IF k = 0 THEN m ELSE Shift(m * 10, k - 1)

\* a + b of two numbers (used by the slip below only)
Plus(a, b) ==
  IF a.nan \/ b.nan THEN NaN
  ELSE LET e == IF a.e > b.e THEN a.e ELSE b.e
       IN  Norm(Shift(a.m, e - a.e) + Shift(b.m, e - b.e), e)

\* the slip: SET amount = amount + ${amountInCents}
UpdateRows_Accumulate(table, stmt) ==
  {IF r.id = stmt.id
   THEN [r EXCEPT !.customer_id = stmt.customer_id,
                  !.amount = Plus(r.amount, stmt.amount),
                  !.status = stmt.status]
   ELSE r : r \in table}

UpdateRows(table, stmt) ==
  {IF r.id = stmt.id
   THEN [r EXCEPT !.customer_id = stmt.customer_id,
                  !.amount = stmt.amount,
                  !.status = stmt.status]
   ELSE r : r \in table}

\* the slip: DELETE without its WHERE clause
DeleteRows_NoWhere(table, stmt) == {}

DeleteRows(table, stmt) == {r \in table : r.id # stmt.id}

\* the table after the statement is applied
Apply(table, id, stmt) ==
  CASE stmt.kind = "INSERT" -> InsertRow(table, id, stmt)
    [] stmt.kind = "UPDATE" -> UpdateRows(table, stmt)
    [] stmt.kind = "DELETE" -> DeleteRows(table, stmt)

(***************************************************************************)
(* What one `await sql` can do: "ok" applies the statement and resolves,   *)
(* "raise" rejects with the statement not applied, "lost" applies the      *)
(* statement and rejects all the same (the acknowledgement is lost).       *)
(***************************************************************************)
Applied(exec) == exec \in {"ok", "lost"}
Raised(exec) == exec \in {"raise", "lost"}

\* the effect of `await sql` on the store
Sql(stmt, exec) ==
  /\ invoices' = IF Applied(exec) THEN Apply(invoices, nextId, stmt) ELSE invoices
  /\ nextId' = IF Applied(exec) /\ stmt.kind = "INSERT" THEN nextId + 1 ELSE nextId

NoSql == UNCHANGED <<invoices, nextId>>

-----------------------------------------------------------------------------
(***************************************************************************)
(* The record of the last call: the handler, its arguments, what the       *)
(* executor or the verifier did, the statement issued, the calls made to   *)
(* the outside in their order, and how the handler ended.  retryOf says    *)
(* whether the call repeats the call before it (same handler, id and       *)
(* payload) and, if so, what the executor did in that call.                *)
(***************************************************************************)
NoThrow == [thrown |-> FALSE]
Throw(error) == [thrown |-> TRUE, error |-> error]

NoSignIn == [called |-> FALSE]

InvoicesPath == "/dashboard/invoices"

EvSql(kind) == [call |-> "sql", arg |-> kind]
\* revalidateRedirectPath of ./utils: invalidation and forced navigation
EvRevalidateRedirectPath(path) == [call |-> "revalidateRedirectPath", arg |-> path]
\* revalidatePath of next/cache: plain invalidation
EvRevalidatePath(path) == [call |-> "revalidatePath", arg |-> path]
EvSignIn(strategy) == [call |-> "signIn", arg |-> strategy]

Call(op, id, formData, exec, stmt, events, ret) ==
  /\ last' = [op |-> op, id |-> id, formData |-> formData, exec |-> exec,
              stmt |-> stmt, events |-> events, ret |-> ret,
              thrown |-> NoThrow, signIn |-> NoSignIn,
              retryOf |-> IF last.op = op /\ last.id = id /\ last.formData = formData
                          THEN last.exec
                          ELSE "no"]
  /\ turn' = 1 - turn
  /\ UNCHANGED today

MsgWentWrong == "Something went wrong"
MsgWentWrongUpdate == "Somethign went wrong"
MsgDeleted == "Deleted Invoice."

\* the slip: the amount is stored as entered
AmountInCents_Unscaled(amount) == amount

\* const amountInCents = amount * 100
AmountInCents(amount) == Times(amount, Num(100))

\* the days the server clock passes through, today being the index of the
\* current one
Days == <<"2026-11-02", "2026-11-03">>

\* new Date().toISOString().split('T')[0]: the ISO date of the server clock
CurrentDate == Days[today]

createInvoice(formData, exec) ==
  LET validationError == validateInvoiceForms(formData)
      parsed == SafeParse(formData)
  IN  IF validationError # Null
      THEN /\ Call("createInvoice", 0, formData, "none", NoStmt, <<>>, validationError)
           /\ NoSql
      ELSE IF ~parsed.success
      THEN \* CreateInvoice.parse throws inside the try block
           /\ Call("createInvoice", 0, formData, "none", NoStmt, <<>>,
                   [message |-> MsgWentWrong])
           /\ NoSql
      ELSE LET amountInCents == AmountInCents(parsed.data.amount)
               date == CurrentDate
               stmt == InsertStmt(parsed.data.customerId, amountInCents,
                                  parsed.data.status, date)
           IN  /\ Sql(stmt, exec)
               /\ IF Raised(exec)
                  THEN Call("createInvoice", 0, formData, exec, stmt,
                            <<EvSql("INSERT")>>, [message |-> MsgWentWrong])
                  ELSE Call("createInvoice", 0, formData, exec, stmt,
                            <<EvSql("INSERT"), EvRevalidateRedirectPath(InvoicesPath)>>,
                            Undefined)

updateInvoice(id, formData, exec) ==
  LET validationError == validateInvoiceForms(formData)
      parsed == SafeParse(formData)
  IN  IF validationError # Null
      THEN /\ Call("updateInvoice", id, formData, "none", NoStmt, <<>>, validationError)
           /\ NoSql
      ELSE IF ~parsed.success
      THEN \* UpdateInvoice.parse throws inside the try block
           /\ Call("updateInvoice", id, formData, "none", NoStmt, <<>>,
                   [message |-> MsgWentWrongUpdate])
           /\ NoSql
      ELSE LET amountInCents == AmountInCents(parsed.data.amount)
               stmt == UpdateStmt(parsed.data.customerId, amountInCents,
                                  parsed.data.status, id)
           IN  /\ Sql(stmt, exec)
               /\ IF Raised(exec)
                  THEN Call("updateInvoice", id, formData, exec, stmt,
                            <<EvSql("UPDATE")>>, [message |-> MsgWentWrongUpdate])
                  ELSE Call("updateInvoice", id, formData, exec, stmt,
                            <<EvSql("UPDATE"), EvRevalidateRedirectPath(InvoicesPath)>>,
                            Undefined)

deleteInvoice(id, exec) ==
  LET stmt == DeleteStmt(id)
  IN  /\ Sql(stmt, exec)
      /\ IF Raised(exec)
         THEN Call("deleteInvoice", id, NoFormData, exec, stmt,
                   <<EvSql("DELETE")>>, [message |-> MsgWentWrong])
         ELSE Call("deleteInvoice", id, NoFormData, exec, stmt,
                   <<EvSql("DELETE"), EvRevalidatePath(InvoicesPath)>>,
                   [message |-> MsgDeleted])

(***************************************************************************)
(* authenticate: signIn('credentials', formData) resolves, or rejects with *)
(* an AuthError of some type, or with an error that is no AuthError.       *)
(***************************************************************************)
SignInOk == [called |-> TRUE, rejected |-> FALSE, isAuthError |-> FALSE, type |-> ""]
SignInAuthError(type) ==
  [called |-> TRUE, rejected |-> TRUE, isAuthError |-> TRUE, type |-> type]
SignInOtherError(name) ==
  [called |-> TRUE, rejected |-> TRUE, isAuthError |-> FALSE, type |-> name]

MsgInvalidCredentials == "Invalid credentials."
MsgWentWrongAuth == "Something went wrong."

\* the slip: the specific message in the default branch
AuthErrorMessage_NoDefault(type) == MsgInvalidCredentials

\* switch (error.type)
AuthErrorMessage(type) ==
  CASE type = "CredentialsSignin" -> MsgInvalidCredentials
    [] OTHER -> MsgWentWrongAuth

authenticate(outcome) ==
  /\ last' = [op |-> "authenticate", id |-> 0, formData |-> NoFormData,
              exec |-> "none", stmt |-> NoStmt,
              events |-> <<EvSignIn("credentials")>>,
              ret |-> IF outcome.rejected /\ outcome.isAuthError
                      THEN Str(AuthErrorMessage(outcome.type))
                      ELSE Undefined,
              thrown |-> IF outcome.rejected /\ ~outcome.isAuthError
                         THEN Throw(outcome)
                         ELSE NoThrow,
              signIn |-> outcome, retryOf |-> "no"]
  /\ turn' = 1 - turn
  /\ UNCHANGED <<invoices, nextId, today>>

-----------------------------------------------------------------------------
(***************************************************************************)
(* Inputs                                                                  *)
(***************************************************************************)
\* ids a caller passes: those the store has handed out and one it never will
Ids == 1..(MaxId + 1)

SignInOutcomes ==
  {SignInOk, SignInAuthError("CredentialsSignin"),
   SignInAuthError("CallbackRouteError"), SignInAuthError("AccessDenied"),
   SignInOtherError("TypeError"), SignInOtherError("NEXT_REDIRECT")}

-----------------------------------------------------------------------------
(***************************************************************************)
(* Specification: any sequence of calls, the executor resolving or         *)
(* rejecting atomically, and the server clock advancing.                   *)
(***************************************************************************)
NoCall ==
  [op |-> "none", id |-> 0, formData |-> NoFormData, exec |-> "none",
   stmt |-> NoStmt, events |-> <<>>, ret |-> Undefined, thrown |-> NoThrow,
   signIn |-> NoSignIn, retryOf |-> "no"]

Init ==
  /\ invoices = {}
  /\ nextId = 1
  /\ today = 1
  /\ last = NoCall
  /\ turn = 0

CreateInvoice ==
  /\ nextId <= MaxId
  /\ \E formData \in Forms, exec \in {"ok", "raise"} : createInvoice(formData, exec)

UpdateInvoice ==
  \E id \in Ids, formData \in Forms, exec \in {"ok", "raise"} :
    updateInvoice(id, formData, exec)

DeleteInvoice ==
  \E id \in Ids, exec \in {"ok", "raise"} : deleteInvoice(id, exec)

Authenticate ==
  \E outcome \in SignInOutcomes : authenticate(outcome)

Tick ==
  /\ today < Len(Days)
  /\ today' = today + 1
  /\ UNCHANGED <<invoices, nextId, last, turn>>

Next ==
  \/ CreateInvoice
  \/ UpdateInvoice
  \/ DeleteInvoice
  \/ Authenticate
  \/ Tick

Spec == Init /\ [][Next]_vars

(***************************************************************************)
(* SpecRetry: the same, with an executor that may also apply a statement   *)
(* and still reject (the caller sees a failure and may retry).             *)
(***************************************************************************)
CreateInvoiceLostAck ==
  /\ nextId <= MaxId
  /\ \E formData \in Forms : createInvoice(formData, "lost")

UpdateInvoiceLostAck ==
  \E id \in Ids, formData \in Forms : updateInvoice(id, formData, "lost")

DeleteInvoiceLostAck ==
  \E id \in Ids : deleteInvoice(id, "lost")

NextRetry ==
  \/ CreateInvoice
  \/ UpdateInvoice
  \/ DeleteInvoice
  \/ CreateInvoiceLostAck
  \/ UpdateInvoiceLostAck
  \/ DeleteInvoiceLostAck
  \/ Tick

SpecRetry == Init /\ [][NextRetry]_vars

(***************************************************************************)
(* SpecValidate: validateInvoiceForms applied to every payload.            *)
(***************************************************************************)
InitValidate ==
  /\ invoices = {}
  /\ nextId = 1
  /\ today = 1
  /\ turn = 0
  /\ \E formData \in AllForms : last = [NoCall EXCEPT !.op = "input", !.formData = formData]

ValidateInvoiceForms ==
  /\ last.op = "input"
  /\ last' = [last EXCEPT !.op = "validateInvoiceForms",
                          !.ret = validateInvoiceForms(last.formData)]
  /\ turn' = 1 - turn
  /\ UNCHANGED <<invoices, nextId, today>>

NextValidate == ValidateInvoiceForms

SpecValidate == InitValidate /\ [][NextValidate]_vars

-----------------------------------------------------------------------------
(***************************************************************************)
(* Properties                                                              *)
(***************************************************************************)
\* the step is a call of a handler
Called == turn' # turn

Ids_of(table) == {r.id : r \in table}

\* a call of createInvoice or updateInvoice
IsMutation(call) == call.op \in {"createInvoice", "updateInvoice"}

\* the payload passes the schema
Valid(formData) == SafeParse(formData).success

\* some call in events signals the path (with or without navigation)
Signals(events) ==
  {i \in 1..Len(events) :
     events[i].call \in {"revalidateRedirectPath", "revalidatePath"}}

\* the values the payload asks to store
GivenCustomerId(formData) == GetCustomerId(formData).s
GivenStatus(formData) == GetStatus(formData).s
GivenAmount(formData) == ToNumber(GetAmount(formData))
Hundredfold(n) == Times(n, Num(100))

(***************************************************************************)
(* C1: when the executor raises on the insert or the update, create and    *)
(* update alike return exactly {message: "Something went wrong"}, throw    *)
(* nothing and emit no signal.                                             *)
(***************************************************************************)
C1_FailureContainedUniformly ==
  (IsMutation(last) /\ last.exec = "raise") =>
    /\ last.ret = [message |-> "Something went wrong"]
    /\ ~last.thrown.thrown
    /\ Signals(last.events) = {}

(***************************************************************************)
(* C2: a create or update whose payload fails validation returns a         *)
(* FieldErrorSet with the message "Missing Fields. Failed to Create        *)
(* Invoice.", issues no statement (the table is unchanged) and emits no    *)
(* signal.                                                                 *)
(***************************************************************************)
C2_InvalidInputNotPersisted ==
  [][(Called /\ IsMutation(last') /\ ~Valid(last'.formData)) =>
       /\ DOMAIN last'.ret = {"errors", "message"}
       /\ last'.ret.message = "Missing Fields. Failed to Create Invoice."
       /\ DOMAIN last'.ret.errors # {}
       /\ last'.stmt = NoStmt
       /\ last'.events = <<>>
       /\ ~last'.thrown.thrown
       /\ invoices' = invoices
       /\ nextId' = nextId]_vars

C2_Witness ==
  /\ last.op = "updateInvoice"
  /\ ~Valid(last.formData)
  /\ \E r \in invoices : r.id = last.id

(***************************************************************************)
(* C3: field errors are aggregated: when several fields are invalid at     *)
(* once, the FieldErrorSet has a key for every invalid field, where        *)
(* customerId is invalid unless it is a non-empty string, amount unless it *)
(* coerces to a number > 0, status unless it is exactly pending or paid.   *)
(***************************************************************************)
CustomerIdInvalid(formData) ==
  LET v == GetCustomerId(formData) IN v.t # "string" \/ v.s = ""

AmountInvalid(formData) == ~GtZero(GivenAmount(formData))

StatusInvalid(formData) ==
  LET v == GetStatus(formData) IN v.t # "string" \/ v.s \notin {"pending", "paid"}

InvalidFields(formData) ==
  (IF CustomerIdInvalid(formData) THEN {"customerId"} ELSE {})
  \cup (IF AmountInvalid(formData) THEN {"amount"} ELSE {})
  \cup (IF StatusInvalid(formData) THEN {"status"} ELSE {})

C3_AllInvalidFieldsReported ==
  (last.op = "validateInvoiceForms"
   /\ Cardinality(InvalidFields(last.formData)) >= 2) =>
    /\ last.ret # Null
    /\ InvalidFields(last.formData) \subseteq DOMAIN last.ret.errors

(***************************************************************************)
(* C4: each failing field carries its prescribed message, however it       *)
(* fails: customerId absent or not a string (also with no payload at all), *)
(* amount not coercing to a number > 0, status anything but pending or     *)
(* paid.                                                                   *)
(***************************************************************************)
PrescribedErrors(formData) ==
  LET failing ==
        (IF GetCustomerId(formData).t # "string" THEN {"customerId"} ELSE {})
        \cup (IF AmountInvalid(formData) THEN {"amount"} ELSE {})
        \cup (IF StatusInvalid(formData) THEN {"status"} ELSE {})
  IN  [f \in failing |->
         CASE f = "customerId" -> <<"Please select a customer.">>
           [] f = "amount" -> <<"Please enter an amount greater than $0.">>
           [] f = "status" -> <<"Please select an invoice status.">>]

C4_PrescribedMessages ==
  last.op = "validateInvoiceForms" =>
    LET want == PrescribedErrors(last.formData)
    IN  \A f \in DOMAIN want :
          /\ last.ret # Null
          /\ f \in DOMAIN last.ret.errors
          /\ last.ret.errors[f] = want[f]

(***************************************************************************)
(* C5: every insert or update statement issued carries amount * 100 of an  *)
(* amount > 0 and a status that is pending or paid, and so does every row  *)
(* of the table.                                                           *)
(***************************************************************************)
C5_PersistedValuesValid ==
  /\ last.stmt.kind \in {"INSERT", "UPDATE"} =>
       /\ GtZero(GivenAmount(last.formData))
       /\ last.stmt.amount = Hundredfold(GivenAmount(last.formData))
       /\ last.stmt.status \in {"pending", "paid"}
  /\ \A r \in invoices :
       /\ GtZero(r.amount)
       /\ r.status \in {"pending", "paid"}

C5_Witness ==
  /\ last.op = "updateInvoice"
  /\ last.exec = "ok"
  /\ last.formData.amount = A_45_5
  /\ last.stmt.amount = Num(4550)
  /\ \E r \in invoices : r.id = last.id /\ r.amount = Num(4550)

(***************************************************************************)
(* C6: a create with a valid payload and a succeeding executor adds        *)
(* exactly one row (fresh id, customerId and status as given, amount *     *)
(* 100, the current date), leaves the other rows alone, then emits one     *)
(* invalidation+navigation signal for the invoice listing, after the       *)
(* insert, and returns nothing.                                            *)
(***************************************************************************)
C6_CreatePersistsThenSignals ==
  [][(Called /\ last'.op = "createInvoice" /\ Valid(last'.formData)
      /\ last'.exec = "ok") =>
       /\ \E r \in invoices' :
            /\ r.id \notin Ids_of(invoices)
            /\ invoices' = invoices \cup {r}
            /\ Cardinality(invoices') = Cardinality(invoices) + 1
            /\ r.customer_id = GivenCustomerId(last'.formData)
            /\ r.status = GivenStatus(last'.formData)
            /\ r.amount = Hundredfold(GivenAmount(last'.formData))
            /\ r.date = Days[today]
       /\ last'.events = <<EvSql("INSERT"),
                           EvRevalidateRedirectPath("/dashboard/invoices")>>
       /\ last'.ret = Undefined
       /\ ~last'.thrown.thrown]_vars

C6_Witness ==
  /\ last.op = "createInvoice"
  /\ last.exec = "ok"
  /\ Cardinality(invoices) = 2
  /\ \E r \in invoices :
       r.date = Days[today] /\ r.id = nextId - 1 /\ r.amount = Num(4550)
  /\ \E r \in invoices : r.date # Days[today]

(***************************************************************************)
(* C7: a successful update changes customerId, amount and status of the    *)
(* row with the id and nothing else: that row's id and date, the other     *)
(* rows and the number of rows stay.  With no row of that id the table is  *)
(* unchanged, nothing is reported, and the signal is still emitted.        *)
(***************************************************************************)
C7_UpdateFrame ==
  [][(Called /\ last'.op = "updateInvoice" /\ Valid(last'.formData)
      /\ last'.exec = "ok") =>
       /\ Cardinality(invoices') = Cardinality(invoices)
       /\ Ids_of(invoices') = Ids_of(invoices)
       /\ \A r \in invoices :
            IF r.id = last'.id
            THEN [id |-> r.id,
                  customer_id |-> GivenCustomerId(last'.formData),
                  amount |-> Hundredfold(GivenAmount(last'.formData)),
                  status |-> GivenStatus(last'.formData),
                  date |-> r.date] \in invoices'
            ELSE r \in invoices'
       /\ (last'.id \notin Ids_of(invoices) => invoices' = invoices)
       /\ nextId' = nextId
       /\ last'.ret = Undefined
       /\ ~last'.thrown.thrown
       /\ last'.events = <<EvSql("UPDATE"),
                           EvRevalidateRedirectPath("/dashboard/invoices")>>]_vars

C7_Witness ==
  /\ last.op = "updateInvoice"
  /\ last.exec = "ok"
  /\ Cardinality(invoices) = 2
  /\ \E r \in invoices :
       /\ r.id = last.id
       /\ r.date # Days[today]
       /\ r.customer_id = GivenCustomerId(last.formData)
  /\ \E r \in invoices :
       /\ r.id # last.id
       /\ r.customer_id # GivenCustomerId(last.formData)

C9_AuthenticateTranslation ==
  last.op = "authenticate" =>
    LET o == last.signIn
    IN  /\ last.events = <<EvSignIn("credentials")>>
        /\ ~o.rejected => (last.ret = Undefined /\ ~last.thrown.thrown)
        /\ (o.rejected /\ o.isAuthError /\ o.type = "CredentialsSignin") =>
             (last.ret = Str("Invalid credentials.") /\ ~last.thrown.thrown)
        /\ (o.rejected /\ o.isAuthError /\ o.type # "CredentialsSignin") =>
             (last.ret = Str("Something went wrong.") /\ ~last.thrown.thrown)
        /\ (o.rejected /\ ~o.isAuthError) =>
             (last.thrown = Throw(o) /\ last.ret = Undefined)
        /\ last.thrown.thrown => ~last.thrown.error.isAuthError

C9_Witness ==
  /\ last.op = "authenticate"
  /\ last.signIn.rejected
  /\ last.signIn.isAuthError
  /\ last.signIn.type = "AccessDenied"
  /\ last.ret = Str("Something went wrong.")

=============================================================================
